---------------------------- MODULE Spec2Model ----------------------------
(***************************************************************************)
(* Model of the seller-apis repository: seller.py (Platform A, Ozon) and   *)
(* market.py (Platform B, Yandex Market).                                  *)
(*                                                                         *)
(* Text that the code parses or rewrites (quantity cells, price cells) is  *)
(* a sequence of one-character strings, so that int() and                  *)
(* price_conversion are computed character by character.  Product codes    *)
(* and offer ids are only compared for equality and are plain strings.     *)
(***************************************************************************)
EXTENDS Integers, Sequences, FiniteSets, TLC

\* ------------------------------------------------------------------ bounds
\* Longest supplier feed (number of spreadsheet rows).
MaxFeed == 2
\* Longest catalog listing (number of offer ids a listing returns).
MaxCatalog == 3
\* Largest chunk size n of a direct divide(lst, n) call.
MaxN == 3
\* Chunk sizes of the orchestrators, scaled down to the model's list
\* lengths: seller.main sends stocks by 100 and prices by 900, market.main
\* sends stocks by 2000.
SellerStockChunk == 2
SellerPriceChunk == 1
MarketStockChunk == 2
\* Most listing requests one get_offer_ids call is followed through.
MaxRequests == 3
\* Largest total a listing response of Platform A reports.
MaxTotal == 3

\* ------------------------------------------------------------------ values
\* Codes of the supplier feed and offer ids of the catalogs: "A" is on both
\* sides, "B" only in the feed, "C" only in a catalog.
Codes == {"A", "B"}
OfferIds == {"A", "C"}

Digits == {"0", "1", "2", "3", "4", "5", "6", "7", "8", "9"}

\* Quantity cells of the spreadsheet.
QtyMany == <<">", "1", "0">>
QtyOne == <<"1">>
QtySeven == <<"7">>
QtyZero == <<"0">>
QtyBad == <<"x">>
Quantities == {QtyMany, QtyOne, QtySeven, QtyZero, QtyBad}

\* Price cells of the spreadsheet: "5'990.00 r" and an empty cell
\* (read_excel is called with keep_default_na=False: an empty cell is "").
PriceThousands == <<"5", "'", "9", "9", "0", ".", "0", "0", " ", "r">>
PriceEmpty == << >>
PriceCells == {PriceThousands, PriceEmpty}

Watch(code, qty, price) == [Kod |-> code, Kolichestvo |-> qty, Tsena |-> price]

\* The rows of the feeds passed to the builders: every quantity with one price,
\* every price with one quantity.
BuilderRows ==
    {Watch(c, q, PriceThousands) : c \in Codes, q \in Quantities}
        \cup {Watch(c, QtySeven, p) : c \in Codes, p \in PriceCells}

SeqsUpTo(S, n) == UNION {[1..m -> S] : m \in 0..n}

\* ----------------------------------------------------------- Python helpers
\* int(s) for a text of decimal digits; anything else raises ValueError.
IsIntText(s) == Len(s) > 0 /\ \A i \in 1..Len(s) : s[i] \in Digits

DigitValue(c) ==
    CASE c = "0" -> 0 [] c = "1" -> 1 [] c = "2" -> 2 [] c = "3" -> 3
      [] c = "4" -> 4 [] c = "5" -> 5 [] c = "6" -> 6 [] c = "7" -> 7
      [] c = "8" -> 8 [] c = "9" -> 9

RECURSIVE PyInt(_)
PyInt(s) ==
    IF Len(s) = 0 THEN 0
    ELSE 10 * PyInt(SubSeq(s, 1, Len(s) - 1)) + DigitValue(s[Len(s)])

\* x in lst
In(x, lst) == \E i \in 1..Len(lst) : lst[i] = x

\* lst.remove(x): drops the first occurrence of x.
FirstIndex(x, lst) == CHOOSE i \in 1..Len(lst) :
    lst[i] = x /\ \A j \in 1..(i - 1) : lst[j] # x

ListRemove(lst, x) ==
    LET i == FirstIndex(x, lst)
    IN SubSeq(lst, 1, i - 1) \o SubSeq(lst, i + 1, Len(lst))

\* price.split(".")[0]: the text before the first "."
BeforeDot(price) ==
    IF \E i \in 1..Len(price) : price[i] = "."
    THEN LET d == CHOOSE i \in 1..Len(price) :
                 price[i] = "." /\ \A j \in 1..(i - 1) : price[j] # "."
         IN SubSeq(price, 1, d - 1)
    ELSE price

IsDigit(c) == c \in Digits

price_conversion(price) == SelectSeq(BeforeDot(price), IsDigit)

Min(a, b) == IF a < b THEN a ELSE b

\* divide(lst, n) drops a trailing short chunk.
divide_dropping_tail(lst, n) ==
    [c \in 1..(Len(lst) \div n) |-> SubSeq(lst, (c - 1) * n + 1, c * n)]

\* list(divide(lst, n)): lst[i : i + n] for i in range(0, len(lst), n)
divide(lst, n) ==
    [c \in 1..((Len(lst) + n - 1) \div n) |->
        SubSeq(lst, (c - 1) * n + 1, Min(c * n, Len(lst)))]


\* ------------------------------------------------------- seller.py builders
\* The quantity rule with the "1" case forgotten.
seller_stock_plain(watch) ==
    IF watch.Kolichestvo = QtyMany THEN 100 ELSE PyInt(watch.Kolichestvo)

\* seller.create_stocks, the count of a matched row (lines 196-202); the
\* caller has checked that int() does not raise.
seller_stock(watch) ==
    IF watch.Kolichestvo = QtyMany THEN 100
    ELSE IF watch.Kolichestvo = QtyOne THEN 0
    ELSE PyInt(watch.Kolichestvo)

\* Whether the count of a row can be computed: int() raises ValueError on
\* any other text.
StockRaises(watch) ==
    /\ watch.Kolichestvo # QtyMany
    /\ watch.Kolichestvo # QtyOne
    /\ ~IsIntText(watch.Kolichestvo)

\* The first loop of seller.create_stocks from row i on.  The result holds
\* the stocks built so far, the caller's offer_ids list as the loop left it,
\* and whether int() raised.
RECURSIVE seller_stocks_loop(_, _, _, _)
seller_stocks_loop(watch_remnants, i, stocks, offer_ids) ==
    IF i > Len(watch_remnants)
    THEN [raised |-> FALSE, stocks |-> stocks, offer_ids |-> offer_ids]
    ELSE LET watch == watch_remnants[i]
         IN IF In(watch.Kod, offer_ids)
            THEN IF StockRaises(watch)
                 THEN [raised |-> TRUE, stocks |-> stocks,
                       offer_ids |-> offer_ids]
                 ELSE seller_stocks_loop(
                          watch_remnants, i + 1,
                          Append(stocks, [offer_id |-> watch.Kod,
                                          stock |-> seller_stock(watch)]),
                          ListRemove(offer_ids, watch.Kod))
            ELSE seller_stocks_loop(watch_remnants, i + 1, stocks, offer_ids)

\* create_stocks with the zero entries of the unmatched offer ids put before
\* the entries of the matched rows.
seller_create_stocks_zeros_first(watch_remnants, offer_ids) ==
    LET r == seller_stocks_loop(watch_remnants, 1, << >>, offer_ids)
    IN IF r.raised THEN r
       ELSE [raised |-> FALSE,
             stocks |-> [j \in 1..Len(r.offer_ids) |->
                            [offer_id |-> r.offer_ids[j], stock |-> 0]]
                        \o r.stocks,
             offer_ids |-> r.offer_ids]

seller_create_stocks(watch_remnants, offer_ids) ==
    LET r == seller_stocks_loop(watch_remnants, 1, << >>, offer_ids)
    IN IF r.raised THEN r
       ELSE [raised |-> FALSE,
             stocks |-> r.stocks \o
                 [j \in 1..Len(r.offer_ids) |->
                     [offer_id |-> r.offer_ids[j], stock |-> 0]],
             offer_ids |-> r.offer_ids]

seller_price(watch) ==
    [auto_action_enabled |-> "UNKNOWN",
     currency_code |-> "RUB",
     offer_id |-> watch.Kod,
     old_price |-> "0",
     price |-> price_conversion(watch.Tsena)]

RECURSIVE seller_prices_loop(_, _, _, _)
seller_prices_loop(watch_remnants, i, prices, offer_ids) ==
    IF i > Len(watch_remnants) THEN prices
    ELSE LET watch == watch_remnants[i]
         IN seller_prices_loop(
                watch_remnants, i + 1,
                IF In(watch.Kod, offer_ids)
                THEN Append(prices, seller_price(watch)) ELSE prices,
                offer_ids)

\* create_prices without the "in offer_ids" test: a price for every row.
seller_create_prices_unfiltered(watch_remnants, offer_ids) ==
    [raised |-> FALSE,
     prices |-> [i \in 1..Len(watch_remnants) |->
                    seller_price(watch_remnants[i])]]

seller_create_prices(watch_remnants, offer_ids) ==
    [raised |-> FALSE,
     prices |-> seller_prices_loop(watch_remnants, 1, << >>, offer_ids)]

\* ------------------------------------------------------- market.py builders
market_stock(watch) ==
    IF watch.Kolichestvo = QtyMany THEN 100
    ELSE IF watch.Kolichestvo = QtyOne THEN 0
    ELSE PyInt(watch.Kolichestvo)

market_stock_entry(sku, warehouse_id, count, date) ==
    [sku |-> sku,
     warehouseId |-> warehouse_id,
     items |-> <<[count |-> count, type |-> "FIT", updatedAt |-> date]>>]

RECURSIVE market_stocks_loop(_, _, _, _, _, _)
market_stocks_loop(watch_remnants, i, stocks, offer_ids, warehouse_id, date) ==
    IF i > Len(watch_remnants)
    THEN [raised |-> FALSE, stocks |-> stocks, offer_ids |-> offer_ids]
    ELSE LET watch == watch_remnants[i]
         IN IF In(watch.Kod, offer_ids)
            THEN IF StockRaises(watch)
                 THEN [raised |-> TRUE, stocks |-> stocks,
                       offer_ids |-> offer_ids]
                 ELSE market_stocks_loop(
                          watch_remnants, i + 1,
                          Append(stocks,
                                 market_stock_entry(watch.Kod, warehouse_id,
                                                    market_stock(watch), date)),
                          ListRemove(offer_ids, watch.Kod),
                          warehouse_id, date)
            ELSE market_stocks_loop(watch_remnants, i + 1, stocks, offer_ids,
                                    warehouse_id, date)

\* date is the clock reading taken at line 169.
market_create_stocks(watch_remnants, offer_ids, warehouse_id, date) ==
    LET r == market_stocks_loop(watch_remnants, 1, << >>, offer_ids,
                                warehouse_id, date)
    IN IF r.raised THEN r
       ELSE [raised |-> FALSE,
             stocks |-> r.stocks \o
                 [j \in 1..Len(r.offer_ids) |->
                     market_stock_entry(r.offer_ids[j], warehouse_id, 0, date)],
             offer_ids |-> r.offer_ids]

\* int(price_conversion(...)) raises ValueError when no digit is left.
PriceRaises(watch) == ~IsIntText(price_conversion(watch.Tsena))

market_price(watch) ==
    [id |-> watch.Kod,
     price |-> [value |-> PyInt(price_conversion(watch.Tsena)),
                currencyId |-> "RUR"]]

RECURSIVE market_prices_loop(_, _, _, _)
market_prices_loop(watch_remnants, i, prices, offer_ids) ==
    IF i > Len(watch_remnants) THEN [raised |-> FALSE, prices |-> prices]
    ELSE LET watch == watch_remnants[i]
         IN IF In(watch.Kod, offer_ids)
            THEN IF PriceRaises(watch)
                 THEN [raised |-> TRUE, prices |-> prices]
                 ELSE market_prices_loop(watch_remnants, i + 1,
                                         Append(prices, market_price(watch)),
                                         offer_ids)
            ELSE market_prices_loop(watch_remnants, i + 1, prices, offer_ids)

market_create_prices(watch_remnants, offer_ids) ==
    market_prices_loop(watch_remnants, 1, << >>, offer_ids)


\* -------------------------------------------------------------------- state
VARIABLES
    platform,        \* "A" (seller.py) or "B" (market.py)
    pc,              \* the statement the program is at
    target,          \* the store or campaign being synchronised
    watch_remnants,  \* the supplier rows in memory
    listing,         \* the offer ids as the listing returned them
    offer_ids,       \* the caller's offer_ids list object
    stocks,          \* the list create_stocks returned
    prices,          \* the list create_prices returned
    chunks,          \* list(divide(...)) of the sequence being uploaded
    k,               \* index of the next chunk; the chunk size in a divide call
    raised,          \* whether the last builder call raised
    sent,            \* the requests answered with success, in order
    failure,         \* the exception that left the try block, if any
    printed,         \* what the except clause printed
    fileExists,      \* ./ostatki.xls is in the working directory
    extracted,       \* this run's download_stock extracted the archive
    product_list,    \* get_offer_ids: the items accumulated
    page,            \* get_offer_ids: last_id / page token for the next request
    requests,        \* get_offer_ids: listing requests issued
    responses        \* get_offer_ids: the listing responses received, in order

vars == <<platform, pc, target, watch_remnants, listing, offer_ids, stocks,
          prices, chunks, k, raised, sent, failure, printed, fileExists,
          extracted, product_list, page, requests, responses>>

dataVars == <<watch_remnants, listing, offer_ids, stocks, prices, chunks, k,
              raised>>
runVars == <<target, sent, failure, printed, fileExists, extracted>>
listVars == <<product_list, page, requests, responses>>

NoFailure == [kind |-> "none", target |-> "none", step |-> "none", k |-> 0]

\* The reading of the clock at market.py line 169.
Timestamps == {"2024-01-01T00:00:00Z"}

\* ------------------------------------------------- calls of the builders
\* Each builder and divide called once on arbitrary rows and offer ids.
InitCalls ==
    /\ platform \in {"A", "B"}
    /\ pc = "call"
    /\ watch_remnants \in SeqsUpTo(BuilderRows, MaxFeed)
    /\ listing \in SeqsUpTo(OfferIds, MaxCatalog)
    /\ offer_ids = listing
    /\ stocks = << >> /\ prices = << >> /\ chunks = << >>
    /\ k = 0 /\ raised = FALSE
    /\ target = "none" /\ sent = << >> /\ failure = NoFailure
    /\ printed = "" /\ fileExists = FALSE /\ extracted = FALSE
    /\ product_list = << >> /\ page = "" /\ requests = 0 /\ responses = << >>

CallSellerCreateStocks ==
    /\ pc = "call" /\ platform = "A"
    /\ LET r == seller_create_stocks(watch_remnants, offer_ids)
       IN /\ raised' = r.raised
          /\ stocks' = IF r.raised THEN << >> ELSE r.stocks
          /\ offer_ids' = r.offer_ids
    /\ pc' = "create_stocks"
    /\ UNCHANGED <<platform, watch_remnants, listing, prices, chunks, k>>
    /\ UNCHANGED <<runVars, listVars>>

CallMarketCreateStocks ==
    /\ pc = "call" /\ platform = "B"
    /\ \E date \in Timestamps :
         LET r == market_create_stocks(watch_remnants, offer_ids, "wh", date)
         IN /\ raised' = r.raised
            /\ stocks' = IF r.raised THEN << >> ELSE r.stocks
            /\ offer_ids' = r.offer_ids
    /\ pc' = "create_stocks"
    /\ UNCHANGED <<platform, watch_remnants, listing, prices, chunks, k>>
    /\ UNCHANGED <<runVars, listVars>>

CallSellerCreatePrices ==
    /\ pc = "call" /\ platform = "A"
    /\ LET r == seller_create_prices(watch_remnants, offer_ids)
       IN /\ raised' = r.raised
          /\ prices' = IF r.raised THEN << >> ELSE r.prices
    /\ pc' = "create_prices"
    /\ UNCHANGED <<platform, watch_remnants, listing, offer_ids, stocks,
                   chunks, k>>
    /\ UNCHANGED <<runVars, listVars>>

CallMarketCreatePrices ==
    /\ pc = "call" /\ platform = "B"
    /\ LET r == market_create_prices(watch_remnants, offer_ids)
       IN /\ raised' = r.raised
          /\ prices' = IF r.raised THEN << >> ELSE r.prices
    /\ pc' = "create_prices"
    /\ UNCHANGED <<platform, watch_remnants, listing, offer_ids, stocks,
                   chunks, k>>
    /\ UNCHANGED <<runVars, listVars>>

\* list(divide(lst, n)) on the offer-id list, for every n >= 1 up to MaxN.
CallDivide ==
    /\ pc = "call"
    /\ \E n \in 1..MaxN :
         /\ k' = n
         /\ chunks' = divide(listing, n)
    /\ pc' = "divide"
    /\ UNCHANGED <<platform, watch_remnants, listing, offer_ids, stocks,
                   prices, raised>>
    /\ UNCHANGED <<runVars, listVars>>

NextCalls ==
    \/ CallSellerCreateStocks
    \/ CallMarketCreateStocks
    \/ CallSellerCreatePrices
    \/ CallMarketCreatePrices
    \/ CallDivide

SpecCalls == InitCalls /\ [][NextCalls]_vars


\* ------------------------------------------------------- the orchestrators
\* The rows a downloaded feed is made of in a run.
RunRows == {Watch(c, q, PriceThousands) : c \in Codes, q \in {QtyMany, QtyBad}}

\* What a request raises: requests.exceptions.ReadTimeout, ConnectionError,
\* or the HTTPError of raise_for_status.
RequestErrors == {"ReadTimeout", "ConnectionError", "HTTPError"}

Request(tgt, kind, payload) == [target |-> tgt, kind |-> kind, payload |-> payload]

Raise(kind, step, index) ==
    failure' = [kind |-> kind, target |-> target, step |-> step, k |-> index]

InitRun ==
    /\ platform \in {"A", "B"}
    /\ pc = "start"
    /\ target = "none"
    /\ watch_remnants = << >> /\ listing = << >> /\ offer_ids = << >>
    /\ stocks = << >> /\ prices = << >> /\ chunks = << >>
    /\ k = 0 /\ raised = FALSE
    /\ sent = << >> /\ failure = NoFailure /\ printed = ""
    /\ fileExists \in BOOLEAN /\ extracted = FALSE
    /\ product_list = << >> /\ page = "" /\ requests = 0 /\ responses = << >>

\* seller.download_stock, called at `here`; an exception takes the caller to
\* `handler`, a return to `next`.
download_stock(here, next, handler) ==
    /\ pc = here
    /\ \/ \* session.get or raise_for_status raises; nothing was extracted
          /\ \E e \in RequestErrors : Raise(e, "download_stock", 0)
          /\ pc' = handler
          /\ UNCHANGED <<watch_remnants, fileExists, extracted>>
       \/ \* extractall writes ostatki.xls; read_excel raises
          /\ Raise("ValueError", "download_stock", 0)
          /\ pc' = handler
          /\ fileExists' = TRUE
          /\ extracted' = TRUE
          /\ UNCHANGED watch_remnants
       \/ \* extractall, read_excel, os.remove, return
          /\ \E rows \in SeqsUpTo(RunRows, MaxFeed) : watch_remnants' = rows
          /\ pc' = next
          /\ fileExists' = FALSE
          /\ extracted' = TRUE
          /\ UNCHANGED failure
    /\ UNCHANGED <<platform, listing, offer_ids, stocks, prices, chunks, k,
                   raised, sent, printed>>
    /\ UNCHANGED listVars

\* ---- seller.main
SellerGetOfferIds ==
    /\ platform = "A" /\ pc = "start"
    /\ target' = "ozon"
    /\ \/ /\ \E ids \in SeqsUpTo(OfferIds, MaxCatalog) :
               /\ listing' = ids
               /\ offer_ids' = ids
               /\ sent' = Append(sent, Request("ozon", "list", ids))
          /\ pc' = "download_stock"
          /\ UNCHANGED failure
       \/ /\ \E e \in RequestErrors :
               failure' = [kind |-> e, target |-> "ozon",
                           step |-> "get_offer_ids", k |-> 0]
          /\ pc' = "except"
          /\ UNCHANGED <<listing, offer_ids, sent>>
    /\ UNCHANGED <<platform, watch_remnants, stocks, prices, chunks, k, raised,
                   printed, fileExists, extracted>>
    /\ UNCHANGED listVars

SellerDownloadStock ==
    /\ platform = "A"
    /\ download_stock("download_stock", "create_stocks", "except")
    /\ UNCHANGED target

SellerCreateStocks ==
    /\ platform = "A" /\ pc = "create_stocks"
    /\ LET r == seller_create_stocks(watch_remnants, offer_ids)
           parts == divide(r.stocks, SellerStockChunk)
       IN /\ offer_ids' = r.offer_ids
          /\ IF r.raised
             THEN /\ Raise("ValueError", "create_stocks", 0)
                  /\ pc' = "except"
                  /\ UNCHANGED <<stocks, chunks, k>>
             ELSE /\ stocks' = r.stocks
                  /\ chunks' = parts
                  /\ k' = 1
                  /\ pc' = IF Len(parts) = 0 THEN "create_prices"
                           ELSE "update_stocks"
                  /\ UNCHANGED failure
    /\ UNCHANGED <<platform, target, watch_remnants, listing, prices, raised,
                   sent, printed, fileExists, extracted>>
    /\ UNCHANGED listVars

\* update_stocks that goes on to the next chunk after a failed request.
SellerUpdateStocksSwallowed ==
    /\ platform = "A" /\ pc = "update_stocks"
    /\ \E e \in RequestErrors : Raise(e, "update_stocks", k)
    /\ k' = k + 1
    /\ pc' = IF k = Len(chunks) THEN "create_prices" ELSE "update_stocks"
    /\ UNCHANGED <<platform, target, watch_remnants, listing, offer_ids,
                   stocks, prices, chunks, raised, sent, printed, fileExists,
                   extracted>>
    /\ UNCHANGED listVars

SellerUpdateStocksFails ==
    /\ platform = "A" /\ pc = "update_stocks"
    /\ \E e \in RequestErrors : Raise(e, "update_stocks", k)
    /\ pc' = "except"
    /\ UNCHANGED <<platform, target, watch_remnants, listing, offer_ids,
                   stocks, prices, chunks, k, raised, sent, printed,
                   fileExists, extracted>>
    /\ UNCHANGED listVars

SellerUpdateStocks ==
    /\ platform = "A" /\ pc = "update_stocks"
    /\ sent' = Append(sent, Request(target, "stocks", chunks[k]))
    /\ k' = k + 1
    /\ pc' = IF k = Len(chunks) THEN "create_prices" ELSE "update_stocks"
    /\ UNCHANGED <<platform, target, watch_remnants, listing, offer_ids,
                   stocks, prices, chunks, raised, failure, printed,
                   fileExists, extracted>>
    /\ UNCHANGED listVars

SellerCreatePrices ==
    /\ platform = "A" /\ pc = "create_prices"
    /\ LET r == seller_create_prices(watch_remnants, offer_ids)
           parts == divide(r.prices, SellerPriceChunk)
       IN /\ prices' = r.prices
          /\ chunks' = parts
          /\ k' = 1
          /\ pc' = IF Len(parts) = 0 THEN "done" ELSE "update_price"
    /\ UNCHANGED <<platform, target, watch_remnants, listing, offer_ids,
                   stocks, raised, sent, failure, printed, fileExists,
                   extracted>>
    /\ UNCHANGED listVars

SellerUpdatePriceFails ==
    /\ platform = "A" /\ pc = "update_price"
    /\ \E e \in RequestErrors : Raise(e, "update_price", k)
    /\ pc' = "except"
    /\ UNCHANGED <<platform, target, watch_remnants, listing, offer_ids,
                   stocks, prices, chunks, k, raised, sent, printed,
                   fileExists, extracted>>
    /\ UNCHANGED listVars

SellerUpdatePrice ==
    /\ platform = "A" /\ pc = "update_price"
    /\ sent' = Append(sent, Request(target, "prices", chunks[k]))
    /\ k' = k + 1
    /\ pc' = IF k = Len(chunks) THEN "done" ELSE "update_price"
    /\ UNCHANGED <<platform, target, watch_remnants, listing, offer_ids,
                   stocks, prices, chunks, raised, failure, printed,
                   fileExists, extracted>>
    /\ UNCHANGED listVars

\* The except clauses of both main functions: print and fall off the end.
Except ==
    /\ pc = "except"
    /\ printed' = CASE failure.kind = "ReadTimeout" -> "timeout"
                    [] failure.kind = "ConnectionError" -> "connection"
                    [] OTHER -> "ERROR_2"
    /\ pc' = "done"
    /\ UNCHANGED <<platform, target, watch_remnants, listing, offer_ids,
                   stocks, prices, chunks, k, raised, sent, failure,
                   fileExists, extracted>>
    /\ UNCHANGED listVars

\* ---- market.main
Warehouse(campaign) ==
    IF campaign = "FBS" THEN "WAREHOUSE_FBS_ID" ELSE "WAREHOUSE_DBS_ID"

\* download_stock is called before the try block: what it raises is caught
\* by nothing.
MarketDownloadStock ==
    /\ platform = "B"
    /\ download_stock("start", "get_offer_ids", "crashed")
    /\ target' = IF pc' = "get_offer_ids" THEN "FBS" ELSE target

MarketGetOfferIds ==
    /\ platform = "B" /\ pc = "get_offer_ids"
    /\ \/ /\ \E ids \in SeqsUpTo(OfferIds, MaxCatalog) :
               /\ listing' = ids
               /\ offer_ids' = ids
               /\ sent' = Append(sent, Request(target, "list", ids))
          /\ pc' = "create_stocks"
          /\ UNCHANGED failure
       \/ /\ \E e \in RequestErrors : Raise(e, "get_offer_ids", 0)
          /\ pc' = "except"
          /\ UNCHANGED <<listing, offer_ids, sent>>
    /\ UNCHANGED <<platform, target, watch_remnants, stocks, prices, chunks, k,
                   raised, printed, fileExists, extracted>>
    /\ UNCHANGED listVars

MarketCreateStocks ==
    /\ platform = "B" /\ pc = "create_stocks"
    /\ \E date \in Timestamps :
         LET r == market_create_stocks(watch_remnants, offer_ids,
                                       Warehouse(target), date)
             parts == divide(r.stocks, MarketStockChunk)
         IN /\ offer_ids' = r.offer_ids
            /\ IF r.raised
               THEN /\ Raise("ValueError", "create_stocks", 0)
                    /\ pc' = "except"
                    /\ UNCHANGED <<stocks, chunks, k>>
               ELSE /\ stocks' = r.stocks
                    /\ chunks' = parts
                    /\ k' = 1
                    /\ pc' = IF Len(parts) = 0 THEN "upload_prices"
                             ELSE "update_stocks"
                    /\ UNCHANGED failure
    /\ UNCHANGED <<platform, target, watch_remnants, listing, prices, raised,
                   sent, printed, fileExists, extracted>>
    /\ UNCHANGED listVars

MarketUpdateStocksFails ==
    /\ platform = "B" /\ pc = "update_stocks"
    /\ \E e \in RequestErrors : Raise(e, "update_stocks", k)
    /\ pc' = "except"
    /\ UNCHANGED <<platform, target, watch_remnants, listing, offer_ids,
                   stocks, prices, chunks, k, raised, sent, printed,
                   fileExists, extracted>>
    /\ UNCHANGED listVars

MarketUpdateStocks ==
    /\ platform = "B" /\ pc = "update_stocks"
    /\ sent' = Append(sent, Request(target, "stocks", chunks[k]))
    /\ k' = k + 1
    /\ pc' = IF k = Len(chunks) THEN "upload_prices" ELSE "update_stocks"
    /\ UNCHANGED <<platform, target, watch_remnants, listing, offer_ids,
                   stocks, prices, chunks, raised, failure, printed,
                   fileExists, extracted>>
    /\ UNCHANGED listVars

\* upload_prices(...) at lines 316 and 325: upload_prices is an async def
\* and the call is not awaited, so it only builds a coroutine object, which
\* is dropped; the body of upload_prices (get_offer_ids, create_prices,
\* update_price) never runs.
MarketUploadPrices ==
    /\ platform = "B" /\ pc = "upload_prices"
    /\ IF target = "FBS"
       THEN target' = "DBS" /\ pc' = "get_offer_ids"
       ELSE target' = target /\ pc' = "done"
    /\ UNCHANGED <<platform, watch_remnants, listing, offer_ids, stocks,
                   prices, chunks, k, raised, sent, failure, printed,
                   fileExists, extracted>>
    /\ UNCHANGED listVars

Next ==
    \/ SellerGetOfferIds
    \/ SellerDownloadStock
    \/ SellerCreateStocks
    \/ SellerUpdateStocks
    \/ SellerUpdateStocksFails
    \/ SellerCreatePrices
    \/ SellerUpdatePrice
    \/ SellerUpdatePriceFails
    \/ MarketDownloadStock
    \/ MarketGetOfferIds
    \/ MarketCreateStocks
    \/ MarketUpdateStocks
    \/ MarketUpdateStocksFails
    \/ MarketUploadPrices
    \/ Except

Spec == InitRun /\ [][Next]_vars

\* ------------------------------------------------------------ get_offer_ids
\* The item lists a listing response carries.
PageIds == {<< >>, <<"A">>, <<"A", "C">>}

SellerItems(ids) == [i \in 1..Len(ids) |-> [offer_id |-> ids[i]]]
MarketItems(ids) == [i \in 1..Len(ids) |-> [offer |-> [shopSku |-> ids[i]]]]

\* The page tokens of Platform B: "" on the last page.
PageTokens == {"", "eyJuZXh0"}

InitListing ==
    /\ platform \in {"A", "B"}
    /\ pc = "loop"
    /\ target = "none"
    /\ watch_remnants = << >> /\ listing = << >> /\ offer_ids = << >>
    /\ stocks = << >> /\ prices = << >> /\ chunks = << >>
    /\ k = 0 /\ raised = FALSE
    /\ sent = << >> /\ failure = NoFailure /\ printed = ""
    /\ fileExists = FALSE /\ extracted = FALSE
    /\ product_list = << >> /\ page = "" /\ requests = 0 /\ responses = << >>

\* The exit test of seller.get_offer_ids written as "total <= len(...)".
seller_exit_at_least(total, products) == total <= Len(products)

\* seller.get_offer_ids line 77
seller_exit(total, products) == total = Len(products)

\* market.get_offer_ids line 143
market_exit(token) == token = ""

\* One turn of the while loop of seller.get_offer_ids: the request, the
\* extension of product_list, the exit test and, past the loop, the list of
\* offer ids.
SellerListingTurn ==
    /\ platform = "A" /\ pc = "loop" /\ requests < MaxRequests
    /\ requests' = requests + 1
    /\ \E ids \in PageIds, total \in 0..MaxTotal :
         LET some_prod == [items |-> SellerItems(ids), total |-> total,
                           last_id |-> IF ids = << >> THEN ""
                                       ELSE ids[Len(ids)]]
             products == product_list \o some_prod.items
         IN /\ responses' = Append(responses, some_prod)
            /\ product_list' = products
            /\ page' = some_prod.last_id
            /\ IF seller_exit(some_prod.total, products)
               THEN /\ pc' = "return"
                    /\ offer_ids' = [i \in 1..Len(products) |->
                                        products[i].offer_id]
               ELSE /\ pc' = "loop"
                    /\ UNCHANGED offer_ids
    /\ UNCHANGED <<platform, watch_remnants, listing, stocks, prices, chunks,
                   k, raised>>
    /\ UNCHANGED runVars

MarketListingTurn ==
    /\ platform = "B" /\ pc = "loop" /\ requests < MaxRequests
    /\ requests' = requests + 1
    /\ \E ids \in PageIds, token \in PageTokens :
         LET some_prod == [offerMappingEntries |-> MarketItems(ids),
                           paging |-> [nextPageToken |-> token]]
             products == product_list \o some_prod.offerMappingEntries
         IN /\ responses' = Append(responses, some_prod)
            /\ product_list' = products
            /\ page' = some_prod.paging.nextPageToken
            /\ IF market_exit(some_prod.paging.nextPageToken)
               THEN /\ pc' = "return"
                    /\ offer_ids' = [i \in 1..Len(products) |->
                                        products[i].offer.shopSku]
               ELSE /\ pc' = "loop"
                    /\ UNCHANGED offer_ids
    /\ UNCHANGED <<platform, watch_remnants, listing, stocks, prices, chunks,
                   k, raised>>
    /\ UNCHANGED runVars

\* get_product_list raises: the exception leaves get_offer_ids.
ListingRequestFails ==
    /\ pc = "loop" /\ requests < MaxRequests
    /\ requests' = requests + 1
    /\ \E e \in RequestErrors : Raise(e, "get_offer_ids", 0)
    /\ pc' = "raised"
    /\ UNCHANGED <<platform, target, watch_remnants, listing, offer_ids,
                   stocks, prices, chunks, k, raised, sent, printed,
                   fileExists, extracted, product_list, page, responses>>

NextListing ==
    \/ SellerListingTurn
    \/ MarketListingTurn
    \/ ListingRequestFails

SpecListing == InitListing /\ [][NextListing]_vars

\* ---------------------------------------------- claims about the builders
Range(f) == {f[i] : i \in DOMAIN f}

StockSku(e) == IF platform = "A" THEN e.offer_id ELSE e.sku
StockCount(e) == IF platform = "A" THEN e.stock ELSE e.items[1].count
PriceId(e) == IF platform = "A" THEN e.offer_id ELSE e.id

Occurrences(x, lst) == Cardinality({i \in 1..Len(lst) : lst[i] = x})

\* Row i finds its code in offer_ids when the loop reaches it: each earlier
\* row of the same code has taken one occurrence out of the list.
Matched(i) ==
    Cardinality({j \in 1..(i - 1) : watch_remnants[j].Kod = watch_remnants[i].Kod})
        < Occurrences(watch_remnants[i].Kod, listing)

MatchedBefore(i) == Cardinality({j \in 1..(i - 1) : Matched(j)})

\* The quantity rule as the specification tabulates it.
NumericQuantities == {QtyMany, QtyOne, QtySeven, QtyZero}
ExpectedCount(q) ==
    CASE q = QtyMany -> 100
      [] q = QtyOne -> 0
      [] q = QtySeven -> 7
      [] q = QtyZero -> 0

\* C2: every offer id of the listing appears exactly once in the list
\* create_stocks returns, with the normalized count of a row of that code or
\* with count 0, also when the feed repeats a code or the listing repeats an
\* offer id.
C2_EachOfferIdOnce ==
    (pc = "create_stocks" /\ ~raised) =>
        \A id \in Range(listing) :
            /\ Cardinality({p \in 1..Len(stocks) : StockSku(stocks[p]) = id}) = 1
            /\ \A p \in 1..Len(stocks) :
                 StockSku(stocks[p]) = id =>
                    \/ StockCount(stocks[p]) = 0
                    \/ \E i \in 1..Len(watch_remnants) :
                         /\ watch_remnants[i].Kod = id
                         /\ watch_remnants[i].Kolichestvo \in NumericQuantities
                         /\ StockCount(stocks[p])
                              = ExpectedCount(watch_remnants[i].Kolichestvo)

InListing(watch) == In(watch.Kod, listing)

NoDigitBeforeDot(price) ==
    ~ \E i \in 1..Len(price) :
        price[i] \in Digits /\ \A j \in 1..(i - 1) : price[j] # "."

PricesAreTheListedRows ==
    LET rows == SelectSeq(watch_remnants, InListing)
    IN /\ Len(prices) = Len(rows)
       /\ \A p \in 1..Len(rows) : PriceId(prices[p]) = rows[p].Kod

\* C4 as stated: whatever the rows and offer ids, create_prices returns, in
\* row order, one price entry for each row whose code is in offer_ids and
\* nothing else.
C4_PricesAlwaysReturned ==
    pc = "create_prices" => (~raised /\ PricesAreTheListedRows)

\* C4, amended: create_prices of Platform B raises exactly when a row whose
\* code is in offer_ids has a price with no digit before its first ".",
\* create_prices of Platform A never raises, and whenever create_prices
\* returns, the list holds, in row order, one price entry for each row whose
\* code is in offer_ids and nothing else.
C4_PricesOfListedRows ==
    pc = "create_prices" =>
        /\ raised <=> (/\ platform = "B"
                       /\ \E i \in 1..Len(watch_remnants) :
                            /\ InListing(watch_remnants[i])
                            /\ NoDigitBeforeDot(watch_remnants[i].Tsena))
        /\ ~raised => PricesAreTheListedRows

\* A call that skipped a row whose code is not listed and made no entry for
\* a listed offer id that no row carries.
C4_Witness ==
    /\ pc = "create_prices" /\ ~raised /\ Len(prices) = 1
    /\ Len(watch_remnants) = 2
    /\ \E i \in 1..Len(watch_remnants) : ~InListing(watch_remnants[i])
    /\ \E j \in 1..Len(listing) :
         \A i \in 1..Len(watch_remnants) : watch_remnants[i].Kod # listing[j]

RECURSIVE Concat(_)
Concat(ss) == IF Len(ss) = 0 THEN << >> ELSE ss[1] \o Concat(Tail(ss))

\* C8: for n >= 1 the chunks of divide(lst, n), concatenated in order, are
\* lst; every chunk but the last has length n, the last has length 1..n, and
\* an empty list gives no chunk.
C8_DivideCovers ==
    pc = "divide" =>
        /\ Concat(chunks) = listing
        /\ \A c \in 1..(Len(chunks) - 1) : Len(chunks[c]) = k
        /\ Len(chunks) > 0 => Len(chunks[Len(chunks)]) \in 1..k
        /\ listing = << >> => chunks = << >>

\* A division with a full chunk followed by a shorter last chunk.
C8_Witness ==
    /\ pc = "divide" /\ Len(chunks) = 2
    /\ Len(chunks[1]) = k /\ Len(chunks[2]) < k

\* C9: on both platforms create_stocks raises exactly when a matched row has
\* a non-numeric quantity, and otherwise the entry of each matched row has
\* the row's code and the count 100 for ">10", 0 for "1", and the integer
\* itself for any other integer text.
C9_QuantityRule ==
    pc = "create_stocks" =>
        /\ raised <=> \E i \in 1..Len(watch_remnants) :
                         Matched(i) /\ watch_remnants[i].Kolichestvo = QtyBad
        /\ ~raised =>
             \A i \in 1..Len(watch_remnants) :
                 Matched(i) =>
                     LET e == stocks[MatchedBefore(i) + 1]
                     IN /\ StockSku(e) = watch_remnants[i].Kod
                        /\ StockCount(e)
                             = ExpectedCount(watch_remnants[i].Kolichestvo)

\* A stock list of Platform B with a ">10" row and a "1" row, both matched.
C9_Witness ==
    /\ pc = "create_stocks" /\ ~raised /\ platform = "B"
    /\ \E i, j \in 1..Len(watch_remnants) :
         /\ Matched(i) /\ watch_remnants[i].Kolichestvo = QtyMany
         /\ Matched(j) /\ watch_remnants[j].Kolichestvo = QtyOne


MatchedRows == {i \in 1..Len(watch_remnants) : Matched(i)}

RowsOfCode(code) ==
    Cardinality({i \in 1..Len(watch_remnants) : watch_remnants[i].Kod = code})

\* Position j of the listing is left unmatched: it is a later occurrence of
\* its offer id than the rows of that code can take.
Unmatched(j) ==
    Cardinality({i \in 1..j : listing[i] = listing[j]}) > RowsOfCode(listing[j])

UnmatchedBefore(j) == Cardinality({i \in 1..(j - 1) : Unmatched(i)})

\* C11: the list create_stocks returns holds first the entries of the
\* matched rows, in row order, then the zero-count entries of the unmatched
\* offer ids, in the order they have in the listing, and nothing else.
C11_MatchedThenUnmatched ==
    (pc = "create_stocks" /\ ~raised) =>
        LET m == Cardinality(MatchedRows)
        IN /\ Len(stocks)
                = m + Cardinality({j \in 1..Len(listing) : Unmatched(j)})
           /\ \A i \in MatchedRows :
                StockSku(stocks[MatchedBefore(i) + 1]) = watch_remnants[i].Kod
           /\ \A j \in 1..Len(listing) :
                Unmatched(j) =>
                    LET e == stocks[m + UnmatchedBefore(j) + 1]
                    IN StockSku(e) = listing[j] /\ StockCount(e) = 0

\* A list with the entry of one matched row ahead of the zero entries of two
\* different unmatched offer ids.
C11_Witness ==
    /\ pc = "create_stocks" /\ ~raised
    /\ Cardinality(MatchedRows) = 1 /\ Len(stocks) = 3
    /\ StockCount(stocks[1]) # 0
    /\ StockSku(stocks[2]) # StockSku(stocks[3])

\* ------------------------------------------- claims about the orchestrators
\* The entries of the requests of one kind sent for one target, in order.
RECURSIVE Payloads(_, _, _)
Payloads(log, tgt, kind) ==
    IF Len(log) = 0 THEN << >>
    ELSE (IF log[1].target = tgt /\ log[1].kind = kind
          THEN log[1].payload ELSE << >>) \o Payloads(Tail(log), tgt, kind)

Distinct(lst) == \A i, j \in 1..Len(lst) : lst[i] = lst[j] => i = j

RunEndedWithoutError == pc = "done" /\ failure = NoFailure

\* C1: in a run of seller.main in which nothing fails and the listing holds
\* distinct offer ids, the price entries sent through update_price are
\* exactly one entry for each supplier record whose code is in the listing
\* fetched at the start of the run.
C1_PricesOfListedRecordsSent ==
    (platform = "A" /\ RunEndedWithoutError /\ Distinct(listing)) =>
        Payloads(sent, "ozon", "prices")
            = seller_create_prices(watch_remnants, listing).prices

\* The offer ids the listing of a campaign returned in this run.
ListingOf(campaign) == Payloads(sent, campaign, "list")

\* C3: in a run of market.main in which nothing fails, each campaign's price
\* entries are built and every chunk of them is sent in an update_price
\* request, so a campaign with an offer id matched by the feed receives at
\* least one price update request.
C3_CampaignPricesSent ==
    (platform = "B" /\ RunEndedWithoutError) =>
        \A campaign \in {"FBS", "DBS"} :
            LET due == market_create_prices(watch_remnants,
                                            ListingOf(campaign)).prices
            IN /\ Payloads(sent, campaign, "prices") = due
               /\ Len(due) > 0 =>
                    \E i \in 1..Len(sent) :
                        sent[i].target = campaign /\ sent[i].kind = "prices"

RequestSteps == {"get_offer_ids", "update_stocks", "update_price"}

\* C5: a failure of a request of the FBS campaign aborts only the FBS
\* campaign: the run still performs the DBS campaign's listing, and the
\* process ends without an uncaught error.
C5_DbsRunsAfterFbsFailure ==
    (platform = "B" /\ failure.step \in RequestSteps) =>
        /\ pc # "crashed"
        /\ (pc = "done" /\ failure.target = "FBS") =>
              \E i \in 1..Len(sent) :
                  sent[i].target = "DBS" /\ sent[i].kind = "list"

ChunkSize(step) ==
    IF platform = "B" THEN MarketStockChunk
    ELSE IF step = "update_stocks" THEN SellerStockChunk
    ELSE SellerPriceChunk

\* C6: when the upload of the k-th chunk of a target's stock or price
\* sequence has failed, the requests sent end with chunks 1..k-1 of that
\* sequence, in order and once each; nothing else of that sequence and no
\* price request after a failed stock upload were sent; the run is in the
\* except clause of main or past it, and nothing is sent afterwards.
C6_ChunksBeforeFailure ==
    failure.step \in {"update_stocks", "update_price"} =>
        LET kind == IF failure.step = "update_stocks" THEN "stocks"
                    ELSE "prices"
            parts == divide(IF failure.step = "update_stocks" THEN stocks
                            ELSE prices, ChunkSize(failure.step))
            before == Len(sent) - (failure.k - 1)
        IN /\ pc \in {"except", "done"}
           /\ pc = "done" => printed # ""
           /\ failure.k \in 1..Len(parts)
           /\ before >= 0
           /\ \A i \in 1..(failure.k - 1) :
                sent[before + i] = Request(failure.target, kind, parts[i])
           /\ \A i \in 1..before :
                ~(sent[i].target = failure.target /\ sent[i].kind = kind)
           /\ failure.step = "update_stocks" =>
                \A i \in 1..Len(sent) :
                    ~(sent[i].target = failure.target
                        /\ sent[i].kind = "prices")

\* A run that ended after the second stock chunk of the DBS campaign failed.
C6_Witness ==
    /\ pc = "done" /\ failure.step = "update_stocks" /\ failure.k = 2
    /\ failure.target = "DBS"

\* C10: whenever download_stock has exited after extracting the archive, by
\* returning or by raising, ostatki.xls is no longer in the working
\* directory.
C10_ExtractedFileRemoved == extracted => ~fileExists


\* C12: create_stocks leaves the caller's offer-id list as it was passed in,
\* so that the list main hands to a later step (create_prices in
\* seller.main) still holds every offer id of the listing.
C12_CallerListUntouched == offer_ids = listing

\* ------------------------------------------------ claims about get_offer_ids
ItemsOf(response) ==
    IF platform = "A" THEN response.items ELSE response.offerMappingEntries

RECURSIVE Accumulated(_)
Accumulated(i) ==
    IF i = 0 THEN 0 ELSE Accumulated(i - 1) + Len(ItemsOf(responses[i]))

\* Response i is one the claim says the loop stops at.
ExitMet(i) ==
    IF platform = "A" THEN responses[i].total = Accumulated(i)
    ELSE responses[i].paging.nextPageToken = ""

\* C7: get_offer_ids goes on requesting only while no response has had an
\* empty nextPageToken (Platform B) or has brought the accumulated item
\* count to the reported total (Platform A); it returns at the first such
\* response, having issued no request after it, and so after exactly one
\* request when the first response has an empty token or total 0 and no
\* items.
C7_StopsAtFirstExit ==
    pc \in {"loop", "return", "raised"} =>
        /\ pc \in {"loop", "return"} => requests = Len(responses)
        /\ pc \in {"loop", "raised"} =>
              \A i \in 1..Len(responses) : ~ExitMet(i)
        /\ pc = "return" =>
              /\ requests >= 1
              /\ ExitMet(requests)
              /\ \A i \in 1..(requests - 1) : ~ExitMet(i)
        /\ (Len(responses) >= 1 /\ ExitMet(1)) =>
              (pc = "return" /\ requests = 1)

\* Platform A returning after a first response with total 0 and no items.
C7_Witness ==
    /\ platform = "A" /\ pc = "return" /\ requests = 1
    /\ responses[1].total = 0 /\ responses[1].items = << >>

=============================================================================
